---- MODULE Spec2Model ----
(***************************************************************************)
(* Model of ethers-providers/src/rpc/transports/eip1193.rs: the EIP-1193   *)
(* transport that forwards JSON-RPC requests to window.ethereum.           *)
(*                                                                         *)
(* Two universes of values are kept apart:                                 *)
(*   - Rust values (params of type T, decoded results of type R),          *)
(*     records [ty, n, s, elems];                                          *)
(*   - JS values (what the host sees and produces),                        *)
(*     records [kind, n, s, elems, keys].                                  *)
(* JsValue::from_serde maps the first into the second through JSON text,   *)
(* JsValue::into_serde::<R> maps the second into the first and can fail.   *)
(***************************************************************************)
EXTENDS Integers, Sequences, FiniteSets, TLC

VARIABLES
    window_ethereum,  \* the host slot read by get_provider_js
    pc,               \* position of the request future
    call,             \* the request call in progress / last finished
    settle,           \* how the host settled the capability's promise
    outcome,          \* what request returned to its caller
    prev,             \* history: result tag of the call before this one
    avail,            \* last is_available() result with the slot it saw
    providerError,    \* ProviderError::from applied to a returned error
    listeners,        \* the capability's registered listeners
    closures,         \* wasm-bindgen closures: TRUE while the Closure lives
    emitted,          \* host invocations of registered listeners
    delivered,        \* invocations of the caller's callback
    thrown,           \* host invocations that ended in a JS exception
    onResult          \* what the last on() returned

vars == <<window_ethereum, pc, call, settle, outcome, prev, avail,
          providerError, listeners, closures, emitted, delivered, thrown,
          onResult>>

reqVars == <<pc, call, settle, outcome, prev, providerError>>
onVars  == <<listeners, closures, emitted, delivered, thrown, onResult>>

----------------------------------------------------------------------------
(* Bounds *)

MaxLen == 2        \* longest params sequence
MaxListeners == 2  \* registrations per behaviour
MaxEmits == 2      \* host listener invocations per behaviour

----------------------------------------------------------------------------
(* Rust values *)

RUnit      == [ty |-> "Unit",   n |-> 0, s |-> "", elems |-> <<>>]
RBool(b)   == [ty |-> "Bool",   n |-> b, s |-> "", elems |-> <<>>]
RU64(k)    == [ty |-> "U64",    n |-> k, s |-> "", elems |-> <<>>]
RString(t) == [ty |-> "String", n |-> 0, s |-> t,  elems |-> <<>>]
RVec(es)   == [ty |-> "Vec",    n |-> 0, s |-> "", elems |-> es]
\* struct RequestMethod { method: String }
RequestMethod(m) == [ty |-> "RequestMethod", n |-> 0, s |-> m, elems |-> <<>>]
\* a value whose Serialize impl fails (e.g. a map with non-string keys)
RUnserializable == [ty |-> "Unserializable", n |-> 0, s |-> "", elems |-> <<>>]
RNone      == [ty |-> "None",   n |-> 0, s |-> "", elems |-> <<>>]

\* elements of a params sequence, and scalar params
RElems   == {RUnit, RU64(4001), RString("boom")}
RScalars == RElems \cup {RBool(1)}

SeqsUpTo(S, k) == UNION {[1..i -> S] : i \in 0..k}

RVecs == {RVec(es) : es \in SeqsUpTo(RElems, MaxLen)}

Params == RScalars \cup RVecs \cup {RequestMethod("eth_accounts"), RUnserializable}

RTypes == {"Unit", "Bool", "U64", "String", "Vec"}

Methods == {"eth_accounts", "eth_chainId"}

----------------------------------------------------------------------------
(* JS values *)

JsUndefined == [kind |-> "undefined", n |-> 0, s |-> "", elems |-> <<>>, keys |-> ""]
JsNull      == [kind |-> "null",      n |-> 0, s |-> "", elems |-> <<>>, keys |-> ""]
JsBool(b)   == [kind |-> "boolean",   n |-> b, s |-> "", elems |-> <<>>, keys |-> ""]
JsNumber(k) == [kind |-> "number",    n |-> k, s |-> "", elems |-> <<>>, keys |-> ""]
JsString(t) == [kind |-> "string",    n |-> 0, s |-> t,  elems |-> <<>>, keys |-> ""]
JsArray(es) == [kind |-> "array",     n |-> 0, s |-> "", elems |-> es,   keys |-> ""]
JsObject(ks, k, t, d) ==
    [kind |-> "object", n |-> k, s |-> t, elems |-> d, keys |-> ks]

\* {code, message} and {code, message, data}: JSON-RPC error objects
JsRpcError(code, message) == JsObject("code,message", code, message, <<>>)
JsRpcErrorData(code, message, d) == JsObject("code,message,data", code, message, <<d>>)


----------------------------------------------------------------------------
(* Conversions between the two universes *)

\* serde_json::to_string followed by JSON.parse, for one scalar.
ToJs(v) ==
    CASE v.ty = "Unit"   -> JsNull
      [] v.ty = "Bool"   -> JsBool(v.n)
      [] v.ty = "U64"    -> JsNumber(v.n)
      [] v.ty = "String" -> JsString(v.s)
      [] OTHER           -> JsUndefined

\* JsValue::from_serde(&params): Ok(JsValue) or Err(serde_json::Error)
from_serde(p) ==
    CASE p.ty = "Unserializable" -> [ok |-> FALSE, js |-> JsUndefined]
      [] p.ty = "Vec" ->
            [ok |-> TRUE,
             js |-> JsArray([i \in 1..Len(p.elems) |-> ToJs(p.elems[i])])]
      [] p.ty = "RequestMethod" ->
            [ok |-> TRUE, js |-> JsObject("method", 0, p.s, <<>>)]
      [] OTHER -> [ok |-> TRUE, js |-> ToJs(p)]

\* JSON.stringify followed by serde_json::from_str, for one element of a
\* Vec<serde_json::Value>.
ToRust(j) ==
    CASE j.kind = "null"    -> RUnit
      [] j.kind = "boolean" -> RBool(j.n)
      [] j.kind = "number"  -> RU64(j.n)
      [] j.kind = "string"  -> RString(j.s)
      [] OTHER              -> RNone

\* JsValue::into_serde::<R>(): Ok(R) or Err(serde_json::Error).
\* undefined stringifies to nothing, which no type parses.
into_serde(j, R) ==
    CASE R = "Unit"   /\ j.kind = "null"    -> [ok |-> TRUE, val |-> RUnit]
      [] R = "Bool"   /\ j.kind = "boolean" -> [ok |-> TRUE, val |-> RBool(j.n)]
      [] R = "U64"    /\ j.kind = "number"  -> [ok |-> TRUE, val |-> RU64(j.n)]
      [] R = "String" /\ j.kind = "string"  -> [ok |-> TRUE, val |-> RString(j.s)]
      [] R = "Vec"    /\ j.kind = "array"   ->
            [ok |-> TRUE,
             val |-> RVec([i \in 1..Len(j.elems) |-> ToRust(j.elems[i])])]
      [] OTHER -> [ok |-> FALSE, val |-> RNone]

----------------------------------------------------------------------------
(* Results and errors *)

NoOutcome == [tag |-> "None", err |-> "", n |-> 0, s |-> "", data |-> <<>>, val |-> RNone]
Ok(v)     == [tag |-> "Ok",   err |-> "", n |-> 0, s |-> "", data |-> <<>>, val |-> v]
Err(kind, code, t, d) ==
    [tag |-> "Err", err |-> kind, n |-> code, s |-> t, data |-> d, val |-> RNone]

\* enum Eip1193Error
JsValueError(t) == Err("JsValueError", 0, t, <<>>)
JsNoEthereum    == Err("JsNoEthereum", 0, "", <<>>)
JsParseError    == Err("JsParseError", 0, "", <<>>)
JsonRpcError(code, message, d) == Err("JsonRpcError", code, message, d)
SerdeJson       == Err("SerdeJson", 0, "", <<>>)

Eip1193ErrorKinds ==
    {"JsValueError", "JsNoEthereum", "JsParseError", "JsonRpcError", "SerdeJson"}

\* enum ProviderError, the two variants the conversion produces
NoProviderError == [kind |-> "None", s |-> "", src |-> NoOutcome]
CustomError(t)  == [kind |-> "CustomError", s |-> t, src |-> NoOutcome]
JsonRpcClientError(e) == [kind |-> "JsonRpcClientError", s |-> "", src |-> e]

\* mutant: every transport error boxed as the generic client error
ProviderError_from_generic(src) == JsonRpcClientError(src)

\* impl From<Eip1193Error> for ProviderError
ProviderError_from(src) ==
    IF src.err = "JsValueError"
    THEN CustomError(src.s)
    ELSE JsonRpcClientError(src)

\* mutant: a rejection reported as a parse failure, its payload lost
Eip1193Error_from_parse(src) == [panicked |-> FALSE, e |-> JsParseError]

\* impl From<JsValue> for Eip1193Error:
\*   Eip1193Error::JsValueError(src.into_serde::<String>().unwrap())
\* unwrap() panics when the value is not a JSON string.
Eip1193Error_from(src) ==
    LET r == into_serde(src, "String")
    IN  IF r.ok
        THEN [panicked |-> FALSE, e |-> JsValueError(r.val.s)]
        ELSE [panicked |-> TRUE,  e |-> NoOutcome]

----------------------------------------------------------------------------
(* The host slot *)

Slots == {"object", "undefined", "throws"}

\* get_provider_js(): Ok(Some(eth)), Ok(None), or Err when the lookup throws
get_provider_js(slot) ==
    CASE slot = "object"    -> "OkSome"
      [] slot = "undefined" -> "OkNone"
      [] OTHER              -> "Err"

\* mutant: the lookup made by is_available() is kept and reused
Ethereum_default_cached(slot) ==
    LET seen == IF avail.called THEN avail.slot ELSE slot
    IN  IF get_provider_js(seen) = "OkSome"
        THEN [ok |-> TRUE,  e |-> NoOutcome]
        ELSE [ok |-> FALSE, e |-> JsNoEthereum]

\* Ethereum::default()
Ethereum_default(slot) ==
    IF get_provider_js(slot) = "OkSome"
    THEN [ok |-> TRUE,  e |-> NoOutcome]
    ELSE [ok |-> FALSE, e |-> JsNoEthereum]

----------------------------------------------------------------------------
(* request *)

NoArgs == [method |-> "", params |-> <<>>]
NoCall == [method |-> "", params |-> RNone, R |-> "Unit", slot |-> "undefined",
           invocations |-> 0, args |-> NoArgs]
NoSettle == [how |-> "none", value |-> JsUndefined]

Reverse(q) == [i \in 1..Len(q) |-> q[Len(q) + 1 - i]]

\* mutant: the sequence is handed over in reverse order
js_params_reversed(params) ==
    IF params.kind = "array" THEN Reverse(params.elems) ELSE <<>>

\* mutant: a non-sequence value is wrapped instead of replaced
js_params_wrap(params) ==
    IF params.kind = "array" THEN params.elems ELSE <<params>>

\* let js_params = if params.is_array() { Array::from(&params) } else { Array::new() }
js_params(params) ==
    IF params.kind = "array" THEN params.elems ELSE <<>>

\* request, up to the await: the new call record, pc and outcome
request_start(method, params, R, slot) ==
    LET ethereum == Ethereum_default(slot)
        enc      == from_serde(params)
        c0       == [method |-> method, params |-> params, R |-> R, slot |-> slot,
                     invocations |-> 0, args |-> NoArgs]
    IN  IF ~ethereum.ok
        THEN [pc |-> "returned", call |-> c0, outcome |-> ethereum.e]
        ELSE IF ~enc.ok
        THEN [pc |-> "returned", call |-> c0, outcome |-> SerdeJson]
        ELSE [pc |-> "awaiting",
              call |-> [c0 EXCEPT !.invocations = 1,
                                  !.args = [method |-> method,
                                            params |-> js_params(enc.js)]],
              outcome |-> NoOutcome]

\* mutant: a rejection or a decode failure invokes the capability again
request_resume_retry(c, how, value) ==
    IF how = "reject" \/ ~into_serde(value, c.R).ok
    THEN [pc |-> "awaiting",
          call |-> [c EXCEPT !.invocations = c.invocations + 1],
          outcome |-> NoOutcome]
    ELSE [pc |-> "returned", call |-> c,
          outcome |-> Ok(into_serde(value, c.R).val)]

\* request, from the await on: the host resolved or rejected the promise
request_resume(c, how, value) ==
    IF how = "reject"
    THEN LET r == Eip1193Error_from(value)
         IN  IF r.panicked
             THEN [pc |-> "panicked", call |-> c, outcome |-> NoOutcome]
             ELSE [pc |-> "returned", call |-> c, outcome |-> r.e]
    ELSE LET d == into_serde(value, c.R)
         IN  IF d.ok
             THEN [pc |-> "returned", call |-> c, outcome |-> Ok(d.val)]
             ELSE [pc |-> "returned", call |-> c, outcome |-> JsParseError]

\* values the host may settle the promise with
HostValues(args) ==
    {JsUndefined, JsNull, JsBool(1), JsNumber(4001), JsString("boom"),
     JsRpcError(4001, "User rejected"),
     JsRpcErrorData(4001, "User rejected", JsString("boom")),
     JsArray(<<JsString("boom")>>),
     JsArray(args.params)}

request(method, params, R) ==
    /\ pc = "idle"
    /\ LET r == request_start(method, params, R, window_ethereum)
       IN  /\ pc' = r.pc
           /\ call' = r.call
           /\ outcome' = r.outcome
    /\ UNCHANGED <<window_ethereum, settle, prev, providerError, avail, onVars>>

host_settle(how, value) ==
    /\ pc = "awaiting"
    /\ LET r == request_resume(call, how, value)
       IN  /\ pc' = r.pc
           /\ call' = r.call
           /\ outcome' = r.outcome
    /\ settle' = [how |-> how, value |-> value]
    /\ UNCHANGED <<window_ethereum, prev, avail, providerError, onVars>>

\* the caller's `?` turning the returned Eip1193Error into a ProviderError
convert_error ==
    /\ pc = "returned"
    /\ outcome.tag = "Err"
    /\ providerError.kind = "None"
    /\ providerError' = ProviderError_from(outcome)
    /\ UNCHANGED <<window_ethereum, pc, call, settle, outcome, prev, avail, onVars>>

\* the caller takes the returned result; the future is gone and the
\* stateless transport is ready for the next call
take_result ==
    /\ pc = "returned"
    /\ pc' = "idle"
    /\ prev' = outcome.tag
    /\ call' = NoCall
    /\ settle' = NoSettle
    /\ outcome' = NoOutcome
    /\ providerError' = NoProviderError
    /\ UNCHANGED <<window_ethereum, avail, onVars>>

\* Eip1193::is_available()
is_available ==
    /\ avail' = [called |-> TRUE,
                 result |-> Ethereum_default(window_ethereum).ok,
                 slot |-> window_ethereum]
    /\ UNCHANGED <<window_ethereum, reqVars, onVars>>

\* the host adds or removes window.ethereum
host_set_ethereum(slot) ==
    /\ slot # window_ethereum
    /\ window_ethereum' = slot
    /\ UNCHANGED <<reqVars, avail, onVars>>

----------------------------------------------------------------------------
(* on *)

Events == {"accountsChanged", "chainChanged"}
Payloads == {JsArray(<<JsString("0xabc")>>), JsString("0x1")}

\* Closure::wrap(callback): a new live closure
Closure_wrap(cs) == Append(cs, TRUE)
\* Drop for Closure: the JS function stays, the Rust side is gone
Closure_drop(cs, id) == [cs EXCEPT ![id] = FALSE]

\* Eip1193::on(self, event, callback)
on(event) ==
    /\ Len(closures) < MaxListeners
    /\ LET ethereum == Ethereum_default(window_ethereum)
           id       == Len(closures) + 1
       IN  IF ~ethereum.ok
           THEN /\ onResult' = ethereum.e
                /\ UNCHANGED <<listeners, closures>>
           ELSE \* ethereum.on(event, &Closure::wrap(callback));
                \* the temporary Closure is dropped at the end of the statement
                /\ listeners' = Append(listeners, [event |-> event, closure |-> id])
                /\ closures' = Closure_drop(Closure_wrap(closures), id)
                /\ onResult' = Ok(RUnit)
    /\ UNCHANGED <<window_ethereum, reqVars, avail, emitted, delivered, thrown>>

\* the capability invokes a registered listener; a closure that was dropped
\* throws "closure invoked recursively or after being dropped"
host_invoke_listener(i, payload) ==
    /\ i \in 1..Len(listeners)
    /\ Len(emitted) < MaxEmits
    /\ LET l == listeners[i]
           inv == [closure |-> l.closure, event |-> l.event, payload |-> payload]
       IN  /\ emitted' = Append(emitted, inv)
           /\ IF closures[l.closure]
              THEN /\ delivered' = Append(delivered, inv)
                   /\ UNCHANGED thrown
              ELSE /\ thrown' = Append(thrown, inv)
                   /\ UNCHANGED delivered
    /\ UNCHANGED <<window_ethereum, reqVars, avail, listeners, closures, onResult>>

----------------------------------------------------------------------------
(* Specifications *)

Init ==
    /\ window_ethereum \in Slots
    /\ pc = "idle"
    /\ call = NoCall
    /\ settle = NoSettle
    /\ outcome = NoOutcome
    /\ prev = "None"
    /\ avail = [called |-> FALSE, result |-> FALSE, slot |-> "undefined"]
    /\ providerError = NoProviderError
    /\ listeners = <<>>
    /\ closures = <<>>
    /\ emitted = <<>>
    /\ delivered = <<>>
    /\ thrown = <<>>
    /\ onResult = NoOutcome

Request == \E m \in Methods, p \in Params, R \in RTypes : request(m, p, R)
HostResolve == \E v \in HostValues(call.args) : host_settle("resolve", v)
HostReject == \E v \in HostValues(call.args) : host_settle("reject", v)
HostSetEthereum == \E s \in Slots : host_set_ethereum(s)
On == \E e \in Events : on(e)
HostInvokeListener ==
    \E i \in 1..MaxListeners, v \in Payloads : host_invoke_listener(i, v)

Next ==
    \/ Request
    \/ HostResolve
    \/ HostReject
    \/ convert_error
    \/ take_result
    \/ is_available
    \/ HostSetEthereum

Spec == Init /\ [][Next]_vars

NextOn ==
    \/ On
    \/ HostInvokeListener
    \/ HostSetEthereum
    \/ is_available

SpecOn == Init /\ [][NextOn]_vars

----------------------------------------------------------------------------
(* Properties *)

Settled == settle.how # "none"
Echoed == /\ pc = "returned"
          /\ settle.how = "resolve"
          /\ settle.value = JsArray(call.args.params)
Encoded == from_serde(call.params)

\* C1 (as stated): a rejection with a structured JSON-RPC error object
\* {code, message} makes request return the structured RPC error with that
\* code and message and no data.
ErrorPassthrough ==
    (settle.how = "reject" /\ settle.value.keys = "code,message")
        => /\ pc = "returned"
           /\ outcome = JsonRpcError(settle.value.n, settle.value.s, <<>>)

\* C2 (as stated): every listener registered by a successful on() stays
\* valid, and each host invocation of a registered listener reaches the
\* caller's callback exactly once with the same payload.
ListenerDelivery ==
    /\ \A i \in 1..Len(listeners) : closures[listeners[i].closure]
    /\ delivered = emitted

\* C3 (as stated): against a capability that echoes the params it received,
\* request returns Ok(p) for every serializable p decoded at p's own type.
RoundTripAll ==
    (Echoed /\ call.R = call.params.ty) => outcome = Ok(call.params)

\* C3 (amended): against an echoing capability, a sequence-shaped p decoded
\* as a sequence comes back as Ok(p); for a non-sequence p the capability
\* receives and echoes the empty sequence, so the result is the empty
\* sequence when decoded as a sequence and JsParseError at any other type.
RoundTripSequences ==
    Echoed =>
        IF call.params.ty = "Vec"
        THEN call.R = "Vec" => outcome = Ok(call.params)
        ELSE outcome = (IF call.R = "Vec" THEN Ok(RVec(<<>>)) ELSE JsParseError)

RoundTripWitness ==
    /\ Echoed
    /\ call.params.ty = "Vec"
    /\ Len(call.params.elems) = 2
    /\ call.params.elems[1] # call.params.elems[2]
    /\ outcome = Ok(call.params)

\* C4: is_available() returns true iff window.ethereum is present when it is
\* called, and a request fails with JsNoEthereum iff it is absent when the
\* request is made, whatever happened before.
NoCrossCallCaching ==
    /\ avail.called => (avail.result <=> avail.slot = "object")
    /\ pc # "idle" => (outcome = JsNoEthereum <=> call.slot # "object")

CachingWitness ==
    /\ prev = "Ok"
    /\ pc = "returned"
    /\ outcome = JsNoEthereum
    /\ avail.called /\ avail.result

\* C5: the params handed to the capability are the encoded value's elements,
\* in order, when it is an array and the empty sequence otherwise; a
\* serializable non-sequence value reaches the capability without an error.
ParamsNormalization ==
    /\ call.invocations >= 1 =>
          call.args.params =
              (IF Encoded.js.kind = "array" THEN Encoded.js.elems ELSE <<>>)
    /\ (pc # "idle" /\ call.slot = "object" /\ Encoded.ok)
          => /\ call.invocations >= 1
             /\ call.args.method = call.method

NormalizationWitness ==
    /\ pc = "awaiting"
    /\ call.params = RequestMethod("eth_accounts")
    /\ call.args.params = <<>>

\* C6 (as stated): JsNoEthereum converts to the custom provider error, and
\* the opaque rejection, serialization and parse kinds convert to the
\* generic client error.
ErrorInteropTable ==
    providerError.kind # "None" =>
        /\ outcome.err = "JsNoEthereum" => providerError.kind = "CustomError"
        /\ outcome.err \in {"JsValueError", "SerdeJson", "JsParseError"}
              => providerError.kind = "JsonRpcClientError"

\* C6 (amended): JsValueError(s) converts to CustomError(s); every other
\* kind (JsNoEthereum, SerdeJson, JsParseError) converts to
\* JsonRpcClientError boxing the transport error unchanged.
ErrorInteropCode ==
    providerError.kind # "None" =>
        /\ outcome.err \in Eip1193ErrorKinds
        /\ providerError = (IF outcome.err = "JsValueError"
                            THEN CustomError(outcome.s)
                            ELSE JsonRpcClientError(outcome))

ErrorInteropWitness ==
    /\ outcome = JsValueError("boom")
    /\ providerError = CustomError("boom")

\* C7: a rejection with a bare string s makes request return
\* JsValueError(s).
OpaqueRejection ==
    (settle.how = "reject" /\ settle.value.kind = "string")
        => /\ pc = "returned"
           /\ outcome = JsValueError(settle.value.s)

OpaqueRejectionWitness ==
    /\ settle = [how |-> "reject", value |-> JsString("boom")]
    /\ outcome = JsValueError("boom")

\* C8 (as stated): once the host has resolved or rejected, the call has
\* returned Ok or one of the five error kinds; it never aborts.
TotalTypedOutcome ==
    Settled =>
        /\ pc = "returned"
        /\ outcome.tag \in {"Ok", "Err"}
        /\ outcome.tag = "Err" => outcome.err \in Eip1193ErrorKinds

\* C9: a request call invokes the capability at most once: exactly once
\* when the capability is present and the params serialize, never when it
\* fails with JsNoEthereum or SerdeJson, and not again after a rejection or
\* a decode failure.
SingleInvocation ==
    /\ call.invocations <= 1
    /\ pc # "idle" =>
          (call.invocations = 1 <=> (call.slot = "object" /\ Encoded.ok))
    /\ outcome.err \in {"JsNoEthereum", "SerdeJson"} => call.invocations = 0
    /\ Settled => pc # "awaiting"

SingleInvocationWitness ==
    /\ pc = "returned"
    /\ settle.how = "reject"
    /\ outcome.err = "JsValueError"
    /\ call.invocations = 1

\* C10 (as stated): a suspended request leaves the await only because the
\* host settled the promise, and when the host settles it the request
\* returns.
NoTimeoutOrCancellation ==
    [][(pc = "awaiting" /\ pc' # "awaiting")
          => (settle'.how # "none" /\ pc' = "returned")]_vars

====
